---------------------------- MODULE Spec2Model ----------------------------
(***************************************************************************)
(* Model of int_endian.h: the byte-reversal primitives _generic_swap16,    *)
(* _generic_swap32, _generic_swap64 in each of their preprocessor variants *)
(* and the endian-tagged wrappers _generic_endian, _generic_float and      *)
(* _generic_double.                                                        *)
(*                                                                         *)
(* A value of N bytes is a sequence of N bytes in order of significance:   *)
(* s[1] is the least significant byte, s[N] the most significant one.  A   *)
(* signed value is carried as its two's-complement pattern.  64-bit values *)
(* do not fit the model checker's integers, so shifts by 8 and masks with  *)
(* 0xff are computed on these sequences; the 16-bit expression is computed *)
(* on integers, as the code computes it after integral promotion.          *)
(***************************************************************************)
EXTENDS Integers, Sequences, FiniteSets

VARIABLES
    host,   \* __BYTE_ORDER__ of the build: "little", "big" or "pdp"
    arch,   \* __ARM_ARCH of the build, 0 when the macro is not defined
    T,      \* the wrapper type the program instantiates
    objs,   \* the wrapper instances: live, _raw, and the host value last written
    op,     \* the last wrapper operation and what it returned
    call    \* a call of a byte-reversal primitive: argument, result, argument after

vars == <<host, arch, T, objs, op, call>>

---------------------------------------------------------------------------
\* Bounds of the model.

\* number of generated (non-edge) bit patterns offered as host values
NumPatterns == 1

\* number of byte values combined into the primitives' inputs
NumByteVals == 2

\* number of generated patterns an indeterminate value is drawn from
NumIndeterminate == 1

---------------------------------------------------------------------------
\* Bit patterns.

\* a function on 1..n as the tuple of its values
Tuple(f) == f \o <<>>

Reverse(s) == Tuple([i \in 1..Len(s) |-> s[Len(s) + 1 - i]])

\* A pattern written most significant byte first, as in a hex literal.
Hex(s) == Reverse(s)

Zero(n) == Tuple([i \in 1..n |-> 0])

Ones(n) == Tuple([i \in 1..n |-> 255])

SignBit(n) == Tuple([i \in 1..n |-> IF i = n THEN 128 ELSE 0])

LowFF(n) == Tuple([i \in 1..n |-> IF i = 1 THEN 255 ELSE 0])

\* 0x1234, 0x12345678, 0x123456789abcdef0
Counting(n) == Tuple([i \in 1..n |-> (18 + 34 * (n - i)) % 256])

Gen(k, n) == Tuple([i \in 1..n |-> (k * 37 + i * 101 + k * i * 7) % 256])

IntValues(n) ==
    {Zero(n), Ones(n), SignBit(n), LowFF(n), Counting(n)}
        \cup {Gen(k, n) : k \in 1..NumPatterns}

\* +0.0, -0.0, +inf, -inf, a quiet NaN with payload, a signalling NaN, 1.0f
FloatValues ==
    {Hex(<<0, 0, 0, 0>>), Hex(<<128, 0, 0, 0>>), Hex(<<127, 128, 0, 0>>),
     Hex(<<255, 128, 0, 0>>), Hex(<<127, 192, 0, 1>>), Hex(<<127, 128, 0, 1>>),
     Hex(<<63, 128, 0, 0>>)}
        \cup {Gen(k, 4) : k \in 1..NumPatterns}

\* +0.0, -0.0, +inf, -inf, a quiet NaN with payload, 1.0
DoubleValues ==
    {Hex(<<0, 0, 0, 0, 0, 0, 0, 0>>), Hex(<<128, 0, 0, 0, 0, 0, 0, 0>>),
     Hex(<<127, 240, 0, 0, 0, 0, 0, 0>>), Hex(<<255, 240, 0, 0, 0, 0, 0, 0>>),
     Hex(<<127, 248, 0, 0, 0, 0, 0, 1>>), Hex(<<63, 240, 0, 0, 0, 0, 0, 0>>)}
        \cup {Gen(k, 8) : k \in 1..NumPatterns}

ByteTable == <<0, 255, 128, 18, 52, 127, 1, 254>>

ByteVals == {ByteTable[i] : i \in 1..NumByteVals}

\* every pattern of n bytes over ByteVals
Patterns(n) == {Tuple(f) : f \in [1..n -> ByteVals]}

\* the arguments offered to a primitive of n bytes
SwapInputs(n) == Patterns(n) \cup IntValues(n)

---------------------------------------------------------------------------
\* Integer arithmetic of the code, on byte sequences.

\* Integral conversion of a value to an unsigned type of n bytes: the value
\* modulo 2^(8n).  A negative source is sign-extended, any other zero-extended.
ConvertTo(s, signed, n) ==
    LET fill == IF signed /\ s[Len(s)] >= 128 THEN 255 ELSE 0
    IN  Tuple([i \in 1..n |-> IF i <= Len(s) THEN s[i] ELSE fill])

\* x << 8k at the width of x
Shl(s, k) == Tuple([i \in 1..Len(s) |-> IF i <= k THEN 0 ELSE s[i - k]])

\* x >> 8k of an unsigned x
Shr(s, k) == Tuple([i \in 1..Len(s) |-> IF i + k > Len(s) THEN 0 ELSE s[i + k]])

\* x & 0xff (k = 1), x & 0xffffffff (k = 4)
AndLow(s, k) == Tuple([i \in 1..Len(s) |-> IF i <= k THEN s[i] ELSE 0])

RECURSIVE BitOr(_, _, _)
\* a | b of two values below 2^bits
BitOr(a, b, bits) ==
    IF bits = 0 THEN 0
    ELSE IF a = 0 THEN b
    ELSE IF b = 0 THEN a
    ELSE (IF a % 2 = 1 \/ b % 2 = 1 THEN 1 ELSE 0)
            + 2 * BitOr(a \div 2, b \div 2, bits - 1)

\* x | y of two values of one width
Or(s, t) == Tuple([i \in 1..Len(s) |-> BitOr(s[i], t[i], 8)])

\* the integer a 16-bit pattern stands for, and back (modulo 2^16)
ToInt16(s) == s[1] + 256 * s[2]

FromInt16(x) == <<(x % 65536) % 256, (x % 65536) \div 256>>

---------------------------------------------------------------------------
\* The build.

\* #if __BYTE_ORDER__ == __ORDER_LITTLE_ENDIAN__
HostIsLittle == host = "little"

\* #ifdef __ARM_ARCH / #define __UNROLLED_SWAP__ 1
UnrolledSwap == arch # 0

\* the bytes of an object in memory, p[0] first, and the object they hold
ToMem(s) == IF HostIsLittle THEN s ELSE Reverse(s)

FromMem(m) == IF HostIsLittle THEN m ELSE Reverse(m)

---------------------------------------------------------------------------
\* The byte-reversal primitives.  Each takes its argument by const reference
\* and is modelled by what it returns (ret) and by the value the referenced
\* object holds when it returns (arg).

\* rev16: the bytes of each halfword of a register exchanged
Rev16(r) == <<r[2], r[1], r[4], r[3]>>

\* rev: the four bytes of a register reversed
Rev(r) == <<r[4], r[3], r[2], r[1]>>

\* tmp = p[i]; p[i] = p[j]; p[j] = tmp;
SwapBytes(m, i, j) ==
    LET tmp == m[i + 1]
        m1 == [m EXCEPT ![i + 1] = m[j + 1]]
    IN  [m1 EXCEPT ![j + 1] = tmp]

swap16_rev16(v) ==
    [ret |-> ConvertTo(Rev16(ConvertTo(v, FALSE, 4)), FALSE, 2), arg |-> v]

\* The unrolled variants: p points at the bytes of the referenced object
\* (the cast the source intends; as written, without parentheses and casting
\* const away, a compiler rejects it), the bytes are exchanged in place and
\* the object is returned.  The write reaches the caller's object.
swap16_unrolled(v) ==
    LET p == SwapBytes(ToMem(v), 0, 1)
    IN  [ret |-> FromMem(p), arg |-> FromMem(p)]

\* ((v & 0xff) << 8) | ((v & 0xff00) >> 8), in int, returned as uint16_t
swap16_expr(v) ==
    LET x == ToInt16(v)
        lo == (x % 256) * 256
        hi == (((x \div 256) % 256) * 256) \div 256
    IN  [ret |-> FromInt16(BitOr(lo, hi, 16)), arg |-> v]

_generic_swap16(v) ==
    IF arch >= 6 THEN swap16_rev16(v)
    ELSE IF UnrolledSwap THEN swap16_unrolled(v)
    ELSE swap16_expr(v)

swap32_rev(v) == [ret |-> Rev(v), arg |-> v]

swap32_unrolled(v) ==
    LET p == SwapBytes(SwapBytes(ToMem(v), 0, 3), 1, 2)
    IN  [ret |-> FromMem(p), arg |-> FromMem(p)]

RECURSIVE SwapLoop(_, _, _, _)
\* for (int i = 0; i < n; i++) { ret = (ret << 8) | (tmp & 0xff); tmp >>= 8; }
SwapLoop(ret, tmp, i, n) ==
    IF i < n
    THEN SwapLoop(Or(Shl(ret, 1), AndLow(tmp, 1)), Shr(tmp, 1), i + 1, n)
    ELSE ret

swap32_loop(v) == [ret |-> SwapLoop(Zero(4), v, 0, 4), arg |-> v]

_generic_swap32(v) ==
    IF arch >= 6 THEN swap32_rev(v)
    ELSE IF UnrolledSwap THEN swap32_unrolled(v)
    ELSE swap32_loop(v)

\* swap64_halves with the reversed halves left in their own positions
swap64_halves_in_place(v) ==
    LET vlow == _generic_swap32(ConvertTo(AndLow(v, 4), FALSE, 4)).ret
        vhigh == _generic_swap32(ConvertTo(Shr(v, 4), FALSE, 4)).ret
    IN  [ret |-> Or(Shl(ConvertTo(vhigh, FALSE, 8), 4), ConvertTo(vlow, FALSE, 8)),
         arg |-> v]

\* two 32-bit reversals, of v & 0xffffffff and of v >> 32, exchanged
swap64_halves(v) ==
    LET vlow == _generic_swap32(ConvertTo(AndLow(v, 4), FALSE, 4)).ret
        vhigh == _generic_swap32(ConvertTo(Shr(v, 4), FALSE, 4)).ret
    IN  [ret |-> Or(Shl(ConvertTo(vlow, FALSE, 8), 4), ConvertTo(vhigh, FALSE, 8)),
         arg |-> v]

swap64_unrolled(v) ==
    LET p == SwapBytes(SwapBytes(SwapBytes(SwapBytes(ToMem(v), 0, 7), 1, 6), 2, 5), 3, 4)
    IN  [ret |-> FromMem(p), arg |-> FromMem(p)]

swap64_loop(v) == [ret |-> SwapLoop(Zero(8), v, 0, 8), arg |-> v]

_generic_swap64(v) ==
    IF arch >= 7 THEN swap64_halves(v)
    ELSE IF UnrolledSwap THEN swap64_unrolled(v)
    ELSE swap64_loop(v)

\* the primitive of a width
GenericSwap(n, v) ==
    IF n = 2 THEN _generic_swap16(v)
    ELSE IF n = 4 THEN _generic_swap32(v)
    ELSE _generic_swap64(v)

---------------------------------------------------------------------------
\* The wrapper types.

IntTypes == [kind : {"int"}, size : {2, 4, 8}, signed : BOOLEAN, big : BOOLEAN]

FloatTypes == [kind : {"float"}, size : {4}, signed : {TRUE}, big : BOOLEAN]

DoubleTypes == [kind : {"double"}, size : {8}, signed : {TRUE}, big : BOOLEAN]

Types == IntTypes \cup FloatTypes \cup DoubleTypes

\* the host values offered to the wrapper type of the program
HostValues ==
    IF T.kind = "int" THEN IntValues(T.size)
    ELSE IF T.kind = "float" THEN FloatValues
    ELSE DoubleValues

\* NeedsSwap with the #else branch testing _is_big_endian like the #if branch
NeedsSwap_same_test(big) == big

\* #if __BYTE_ORDER__ == __ORDER_LITTLE_ENDIAN__ if (_is_big_endian) ...
\* #else if (!_is_big_endian) ...
NeedsSwap(big) == IF HostIsLittle THEN big ELSE ~big

\* what a read of the uninitialised union member ret.i may yield
Indeterminate == {Zero(4)} \cup {Gen(k, 4) : k \in 1..NumIndeterminate}

\* _generic_endian::byte_order(const _T v): the value returned (ret) and the
\* value of the parameter v when it returns.  The primitive's reference binds
\* to v itself when _T is the unsigned type of the width and to a converted
\* temporary otherwise; the conditional expression has type uint64_t.
byte_order(v) ==
    LET n == T.size
        c == GenericSwap(n, ConvertTo(v, T.signed, n))
    IN  IF NeedsSwap(T.big)
        THEN {[ret |-> ConvertTo(ConvertTo(c.ret, FALSE, 8), FALSE, n),
               v |-> IF T.signed THEN v ELSE c.arg]}
        ELSE {[ret |-> v, v |-> v]}

\* _generic_float::byte_order(float v): ret.i is assigned only when the
\* orders differ, and val.i = ret.i is returned
float_byte_order(v) ==
    IF NeedsSwap(T.big)
    THEN {[ret |-> _generic_swap32(v).ret, v |-> v]}
    ELSE {[ret |-> i, v |-> v] : i \in Indeterminate}

\* _generic_double::byte_order(double v): ret.i is assigned from the
\* primitive called on val.i, and val.f is returned
double_byte_order(v) ==
    IF NeedsSwap(T.big)
    THEN {[ret |-> _generic_swap64(v).arg, v |-> v]}
    ELSE {[ret |-> v, v |-> v]}

\* byte_order of the wrapper type of the program
ByteOrder(v) ==
    IF T.kind = "int" THEN byte_order(v)
    ELSE IF T.kind = "float" THEN float_byte_order(v)
    ELSE double_byte_order(v)

\* the default constructor: the _raw it leaves
default_ctor ==
    IF T.kind = "int" THEN {Zero(T.size)}
    ELSE {c.ret : c \in ByteOrder(Zero(T.size))}

\* the value constructor, _raw(byte_order(val)): the _raw it leaves
value_ctor(val) == {c.ret : c \in ByteOrder(val)}

\* the copy constructor, _raw = v._raw: the _raw of the copy and of the source
copy_ctor(src) == [raw |-> src, src |-> src]

\* assign storing the host value as given, _raw = v
assign_unconverted(old, v) == {v}

\* operator=(const _T &v), _raw = byte_order(v): the _raw it leaves
assign(old, v) == {c.ret : c \in ByteOrder(v)}

\* operator_T returning the stored bits as they are, return _raw
operator_T_unconverted(raw) == {[ret |-> raw, raw |-> raw]}

\* operator_T with byte_order taking its parameter by reference
operator_T_by_reference(raw) == {[ret |-> c.ret, raw |-> c.v] : c \in ByteOrder(raw)}

\* operator _T(), return byte_order(_raw): the value returned and the _raw left;
\* _raw is passed by value
operator_T(raw) == {[ret |-> c.ret, raw |-> raw] : c \in ByteOrder(raw)}

\* raw(), return _raw
raw_bits(raw) == [ret |-> raw, raw |-> raw]

---------------------------------------------------------------------------
\* The program: one build, one wrapper type, instances a and b.

Slots == {"a", "b"}

Dead == [live |-> FALSE, raw |-> <<>>, last |-> <<>>]

NoOp == [kind |-> "none", obj |-> "a", src |-> "a", ret |-> <<>>]

NoCall == [size |-> 0, arg |-> <<>>, ret |-> <<>>, after |-> <<>>, done |-> FALSE]

\* the builds: an ARM target is little- or big-endian
Builds ==
    {<<h, a>> : h \in {"little", "big"}, a \in {0, 5, 6, 7}} \cup {<<"pdp", 0>>}

Init ==
    /\ \E b \in Builds : host = b[1] /\ arch = b[2]
    /\ T \in Types
    /\ objs = [o \in Slots |-> Dead]
    /\ op = NoOp
    /\ call = NoCall

DefaultConstruct(o) ==
    /\ ~objs[o].live
    /\ \E r \in default_ctor :
          objs' = [objs EXCEPT ![o] = [live |-> TRUE, raw |-> r, last |-> Zero(T.size)]]
    /\ op' = [kind |-> "default", obj |-> o, src |-> o, ret |-> <<>>]
    /\ UNCHANGED <<host, arch, T, call>>

Construct(o, val) ==
    /\ ~objs[o].live
    /\ \E r \in value_ctor(val) :
          objs' = [objs EXCEPT ![o] = [live |-> TRUE, raw |-> r, last |-> val]]
    /\ op' = [kind |-> "construct", obj |-> o, src |-> o, ret |-> <<>>]
    /\ UNCHANGED <<host, arch, T, call>>

CopyConstruct(o, from) ==
    /\ ~objs[o].live
    /\ objs[from].live
    /\ LET c == copy_ctor(objs[from].raw)
       IN  objs' = [objs EXCEPT
                      ![o] = [live |-> TRUE, raw |-> c.raw, last |-> objs[from].last],
                      ![from].raw = c.src]
    /\ op' = [kind |-> "copy", obj |-> o, src |-> from, ret |-> <<>>]
    /\ UNCHANGED <<host, arch, T, call>>

Assign(o, val) ==
    /\ objs[o].live
    /\ \E r \in assign(objs[o].raw, val) :
          objs' = [objs EXCEPT ![o].raw = r, ![o].last = val]
    /\ op' = [kind |-> "assign", obj |-> o, src |-> o, ret |-> <<>>]
    /\ UNCHANGED <<host, arch, T, call>>

Read(o) ==
    /\ objs[o].live
    /\ \E r \in operator_T(objs[o].raw) :
          /\ objs' = [objs EXCEPT ![o].raw = r.raw]
          /\ op' = [kind |-> "read", obj |-> o, src |-> o, ret |-> r.ret]
    /\ UNCHANGED <<host, arch, T, call>>

Raw(o) ==
    /\ objs[o].live
    /\ LET r == raw_bits(objs[o].raw)
       IN  /\ objs' = [objs EXCEPT ![o].raw = r.raw]
           /\ op' = [kind |-> "raw", obj |-> o, src |-> o, ret |-> r.ret]
    /\ UNCHANGED <<host, arch, T, call>>

\* the instance goes out of scope; its storage may hold a new instance
Destroy(o) ==
    /\ objs[o].live
    /\ objs' = [objs EXCEPT ![o] = Dead]
    /\ op' = [kind |-> "destroy", obj |-> o, src |-> o, ret |-> <<>>]
    /\ UNCHANGED <<host, arch, T, call>>

Next ==
    \/ \E o \in Slots : DefaultConstruct(o)
    \/ \E o \in Slots, val \in HostValues : Construct(o, val)
    \/ \E o \in Slots : \E from \in Slots \ {o} : CopyConstruct(o, from)
    \/ \E o \in Slots, val \in HostValues : Assign(o, val)
    \/ \E o \in Slots : Read(o)
    \/ \E o \in Slots : Raw(o)
    \/ \E o \in Slots : Destroy(o)

Spec == Init /\ [][Next]_vars

---------------------------------------------------------------------------
\* The primitives alone: a build, a width and an argument, and one call.

SwapInit ==
    /\ \E b \in Builds : host = b[1] /\ arch = b[2]
    /\ T = [kind |-> "int", size |-> 2, signed |-> FALSE, big |-> TRUE]
    /\ objs = [o \in Slots |-> Dead]
    /\ op = NoOp
    /\ \E n \in {2, 4, 8} : \E x \in SwapInputs(n) :
          call = [size |-> n, arg |-> x, ret |-> <<>>, after |-> <<>>, done |-> FALSE]

CallSwap ==
    /\ ~call.done
    /\ LET c == GenericSwap(call.size, call.arg)
       IN  call' = [call EXCEPT !.ret = c.ret, !.after = c.arg, !.done = TRUE]
    /\ UNCHANGED <<host, arch, T, objs, op>>

SwapNext == CallSwap

SwapSpec == SwapInit /\ [][SwapNext]_vars

---------------------------------------------------------------------------
\* The claims.

\* the host byte order is one of the two the wrappers know
RecognisedHost == host \in {"little", "big"}

\* the declared order of the wrapper type is the host's
DeclaredIsHost == (T.big /\ host = "big") \/ (~T.big /\ host = "little")

\* the instance the last operation acted on
Target == objs[op.obj]

\* a signed pattern with the sign bit set
Negative(v) == T.signed /\ v[Len(v)] >= 128

\* C1: on an integer wrapper, the host-order read returns exactly the host
\* value the instance was constructed from (or last given), negative values
\* included, for every width, signedness, declared order and build.
C1_RoundTrip ==
    (T.kind = "int" /\ op.kind = "read") => op.ret = Target.last

C1_Witness ==
    /\ T.kind = "int" /\ RecognisedHost /\ ~DeclaredIsHost
    /\ op.kind = "read"
    /\ Negative(Target.last)
    /\ Target.raw # Target.last
    /\ op.ret = Target.last

\* C2: on an integer wrapper built for a little- or big-endian host, the
\* stored bits after value construction are the value's bits unmodified when
\* the declared order is the host's and the byte-reversed bits otherwise.
C2_StoredRepresentation ==
    (T.kind = "int" /\ RecognisedHost /\ op.kind = "construct")
        => Target.raw = (IF DeclaredIsHost THEN Target.last ELSE Reverse(Target.last))

C2_Witness ==
    /\ T.kind = "int" /\ RecognisedHost /\ ~DeclaredIsHost
    /\ op.kind = "construct"
    /\ Target.last # Reverse(Target.last)
    /\ Target.raw = Reverse(Target.last)

\* C3: a byte-reversal primitive of N bytes returns N bytes, byte i of the
\* result being byte N-1-i of the argument, and the primitive applied to
\* its own result returns the argument.
C3_ByteReversal ==
    call.done =>
        /\ Len(call.ret) = call.size
        /\ \A i \in 1..call.size :
              /\ call.ret[i] \in 0..255
              /\ call.ret[i] = call.arg[call.size + 1 - i]
        /\ GenericSwap(call.size, call.ret).ret = call.arg

C3_Witness ==
    /\ call.done /\ call.size = 8
    /\ call.arg = Counting(8)
    /\ call.ret = Reverse(call.arg)
    /\ call.ret # call.arg

\* C4: on a float wrapper built for a little- or big-endian host, the read
\* returns the bit pattern the instance was constructed from, also when the
\* declared order is the host's.
C4_FloatRoundTrip ==
    (T.kind = "float" /\ RecognisedHost /\ op.kind = "read")
        => op.ret = Target.last

\* C5: on a double wrapper whose declared order differs from the host's, the
\* stored bits after construction or assignment are the byte-reversed bits
\* of the value.
C5_DoubleStored ==
    (T.kind = "double" /\ RecognisedHost /\ ~DeclaredIsHost
        /\ op.kind \in {"construct", "assign"})
        => Target.raw = Reverse(Target.last)

\* C6: a default-constructed wrapper of any type holds the all-zero pattern
\* and every read of it returns zero.
C6_DefaultZero ==
    (RecognisedHost /\ op.kind = "default")
        => /\ Target.raw = Zero(T.size)
           /\ \A r \in operator_T(Target.raw) : r.ret = Zero(T.size)

\* C7: on integer wrappers built for a little- or big-endian host, after any
\* sequence of constructions, assignments and copies the bytes each instance
\* holds in memory are those of the host value last written to it (or to the
\* instance it was copied from) in the declared order, most significant byte
\* first for a big-endian type and least significant first for a
\* little-endian one; and a copy holds exactly the stored bits of its source.
C7_DeclaredOrder ==
    (T.kind = "int" /\ RecognisedHost) =>
        /\ \A o \in Slots :
              objs[o].live =>
                  ToMem(objs[o].raw)
                      = (IF T.big THEN Reverse(objs[o].last) ELSE objs[o].last)
        /\ op.kind = "copy" => Target.raw = objs[op.src].raw

C7_Witness ==
    /\ T.kind = "int" /\ RecognisedHost /\ ~DeclaredIsHost
    /\ op.kind = "copy"
    /\ objs[op.src].live
    /\ Target.last # Reverse(Target.last)
    /\ Target.raw = Reverse(Target.last)
    /\ Target.raw = objs[op.src].raw

\* C8: in a build whose host byte order is neither little- nor big-endian no
\* wrapper is ever constructed, assigned or read: the build is rejected.
C8_UnsupportedHostRejected ==
    ~RecognisedHost => op.kind \notin {"default", "construct", "assign", "read"}

\* C9: a host-order read and raw() leave every instance's stored bits as they
\* were, a copy construction leaves its source's, raw() returns the stored
\* bits, and the stored bits of an instance change only by an assignment to it.
C9_ReadsDoNotMutate ==
    [][/\ op'.kind \in {"read", "raw"} => objs' = objs
       /\ op'.kind = "raw" => op'.ret = objs[op'.obj].raw
       /\ op'.kind = "copy" => objs'[op'.src] = objs[op'.src]
       /\ \A o \in Slots :
             (objs[o].live /\ objs'[o].live /\ objs'[o].raw # objs[o].raw)
                 => (op'.kind = "assign" /\ op'.obj = o)]_vars

C9_Witness ==
    /\ UnrolledSwap /\ arch < 6
    /\ T.kind = "int" /\ ~T.signed /\ NeedsSwap(T.big)
    /\ op.kind = "read"
    /\ op.ret # Target.raw
    /\ op.ret = Reverse(Target.raw)

\* C10: every variant of a primitive returns the value the shift-and-mask
\* expression (16 bits) or the shift loop (32 and 64 bits) returns, and
\* leaves the caller's argument as it was.
C10_VariantsEquivalent ==
    call.done =>
        /\ call.ret = (IF call.size = 2 THEN swap16_expr(call.arg).ret
                       ELSE IF call.size = 4 THEN swap32_loop(call.arg).ret
                       ELSE swap64_loop(call.arg).ret)
        /\ call.after = call.arg

=============================================================================
